---- MODULE Spec2Model ----
(***************************************************************************)
(* A model of the vaxp_dock Linux runner (linux/runner/my_application.cc)  *)
(* and of its icon path resolver (src/icon_loader.c).                      *)
(*                                                                         *)
(* The runner is single threaded: every handler runs to completion on the  *)
(* GTK main loop, so each handler is one action.  A handler is modelled as *)
(* the sequence of toolkit calls it makes, in source order; the state of a *)
(* window is obtained by applying these calls one after the other, and the *)
(* sequence itself is kept in the window record (field calls) so that      *)
(* ordering properties of a handler can be stated.                         *)
(***************************************************************************)
EXTENDS Integers, Sequences, FiniteSets, TLC

VARIABLES
    platform,                   \* build and display: [x11Build, backend, rgba]
    argv,                       \* the process's argument vector (argv[0] first)
    dart_entrypoint_arguments,  \* MyApplication field: index into heap, 0 = NULL
    window_height,              \* MyApplication field
    window_width,               \* MyApplication field
    bottom_margin,              \* MyApplication field
    heap,                       \* string vectors allocated by g_strdupv
    registered,                 \* GApplication is-registered flag
    hook,                       \* the last run of local_command_line
    windows,                    \* the top-level windows created by activate
    xInputFocus,                \* X11 input focus of the display
    emitted,                    \* number of first-frame emissions so far
    disposed,                   \* number of runs of dispose
    icon                        \* the icon resolver's calls and allocations

vars == <<platform, argv, dart_entrypoint_arguments, window_height, window_width,
          bottom_margin, heap, registered, hook, windows, xInputFocus, emitted,
          disposed, icon>>

appVars == <<platform, argv, dart_entrypoint_arguments, window_height, window_width,
             bottom_margin, heap, registered, hook, windows, xInputFocus, emitted,
             disposed>>

----------------------------------------------------------------------------
(* Bounds of the model *)

\* runs of the command-line hook
MaxHooks == 2
\* emissions of the first-frame signal, over all views
MaxEmit == 2
\* runs of dispose
MaxDispose == 2
\* largest monitor scale factor
MaxScale == 2
\* calls of get_icon_path
MaxResolve == 2

----------------------------------------------------------------------------
(* Program constants *)

\* int window_height = 60 * scale_factor;
BaseHeight == 60
\* int bottom_margin = 4 * scale_factor;
BaseMargin == 4
\* long strut[12]
StrutLen == 12
\* XChangeProperty(..., strut_atom_fallback, ..., strut, 4)
LegacyStrutLen == 4

----------------------------------------------------------------------------
(* Inputs *)

\* A build with GDK_WINDOWING_X11 can run on either backend; one without it
\* cannot run on X11.
Platforms ==
    { p \in [x11Build : BOOLEAN, backend : {"x11", "wayland"}, rgba : BOOLEAN] :
        p.backend = "x11" => p.x11Build }

Argvs == { <<"vaxp_dock">>, <<"vaxp_dock", "--verbose">> }

\* a monitor at the origin, read at every scale factor
MainGeometry == [x |-> 0, y |-> 0, width |-> 800, height |-> 600]

\* a monitor away from the origin that reports no width
SideGeometry == [x |-> 800, y |-> 0, width |-> 0, height |-> 768]

\* What the uninitialised GdkRectangle monitor_geometry can hold when
\* gdk_display_get_primary_monitor returns NULL: gdk_monitor_get_geometry
\* then leaves it untouched.
GarbageGeometries ==
    { [x |-> -7, y |-> 3, width |-> -1, height |-> 40] }

\* The monitor as my_application_activate reads it.  The X11 backend always
\* names a primary monitor; other backends may name none, and then
\* gdk_monitor_get_scale_factor returns 1.
MonitorReadings(p) ==
    { [present |-> TRUE, geometry |-> MainGeometry, scale |-> s] : s \in 1..MaxScale }
    \cup
    { [present |-> TRUE, geometry |-> SideGeometry, scale |-> 1] }
    \cup
    (IF p.backend = "x11" THEN {}
     ELSE { [present |-> FALSE, geometry |-> g, scale |-> 1] :
              g \in GarbageGeometries })

----------------------------------------------------------------------------
(* C arithmetic: double values are kept as exact fractions *)

IntToDouble(n) == [num |-> n, den |-> 1]

DoubleTimesInt(k, d) == [num |-> k * d.num, den |-> d.den]

\* conversion of a double to int truncates toward zero
DoubleToInt(d) ==
    IF d.num >= 0 THEN d.num \div d.den ELSE -((-d.num) \div d.den)

\* g_strdupv(*arguments + 1): a copy of the vector without argv[0]
StrdupvAfterProgramName(arguments) == Tail(arguments)

----------------------------------------------------------------------------
(* Geometry computed by my_application_activate *)

\* double scale_factor = gdk_monitor_get_scale_factor(monitor);
ScaleFactor(m) == IntToDouble(m.scale)

\* variant: the height is not scaled
WindowHeightUnscaled(scale_factor) == BaseHeight

\* int window_height = 60 * scale_factor;
WindowHeightFor(scale_factor) == DoubleToInt(DoubleTimesInt(BaseHeight, scale_factor))

\* int window_width = monitor_geometry.width;
WindowWidthFor(monitor_geometry) == monitor_geometry.width

\* int bottom_margin = 4 * scale_factor;
BottomMarginFor(scale_factor) == DoubleToInt(DoubleTimesInt(BaseMargin, scale_factor))

\* the three values my_application_activate stores on the application object
GeometryFor(m) ==
    [height |-> WindowHeightFor(ScaleFactor(m)),
     width  |-> WindowWidthFor(m.geometry),
     margin |-> BottomMarginFor(ScaleFactor(m))]

\* variant: the window is placed flush with the bottom edge, margin ignored
MovePositionWithoutMargin(monitor_geometry, height, margin) ==
    <<0, monitor_geometry.height - height>>

\* gtk_window_move(window, 0, monitor_geometry.height - window_height - bottom_margin)
MovePosition(monitor_geometry, height, margin) ==
    <<0, monitor_geometry.height - height - margin>>

\* variant: the reserved strip leaves the margin out
StrutWithoutMargin(height, width, margin) ==
    [i \in 0..(StrutLen - 1) |->
        CASE i = 3  -> height
          [] i = 11 -> width
          [] OTHER  -> 0]

\* long strut[12] = {0}; strut[3] = ...; strut[10] = 0; strut[11] = ...;
Strut(height, width, margin) ==
    [i \in 0..(StrutLen - 1) |->
        CASE i = 3  -> height + margin
          [] i = 10 -> 0
          [] i = 11 -> width
          [] OTHER  -> 0]

\* the first nelements items of a C array, as XChangeProperty stores them
ArrayPrefix(data, nelements) == [i \in 0..(nelements - 1) |-> data[i]]

----------------------------------------------------------------------------
(* Toolkit calls and their effect on a window *)

Call(fn, on, args) == [fn |-> fn, on |-> on, args |-> args]

\* the state of a window right after gtk_application_window_new
NewWindow ==
    [visible |-> FALSE, realized |-> FALSE, hints |-> {}, size |-> <<>>,
     sizeRequest |-> <<>>, position |-> <<>>, hasView |-> FALSE,
     viewVisible |-> FALSE, entrypointArgs |-> <<>>, background |-> <<>>,
     handlers |-> 0, plugins |-> FALSE, focus |-> "none",
     netWmState |-> <<>>, strutPartial |-> <<>>, strut |-> <<>>,
     calls |-> <<>>,
     monitor |-> <<>>, geometry |-> <<>>, emissions |-> 0, cbRuns |-> 0,
     reads |-> <<>>]

\* what one toolkit call does to the window it is made on
Effect(w, c) ==
    CASE c.fn = "gtk_widget_set_app_paintable" ->
            [w EXCEPT !.hints = @ \cup {"app_paintable"}]
      [] c.fn = "gtk_widget_set_visual" ->
            [w EXCEPT !.hints = @ \cup {"rgba_visual"}]
      [] c.fn = "gtk_window_set_default_size" -> [w EXCEPT !.size = c.args]
      [] c.fn = "gtk_widget_set_size_request" -> [w EXCEPT !.sizeRequest = c.args]
      [] c.fn = "gtk_window_set_decorated" ->
            [w EXCEPT !.hints = @ \cup {"undecorated"}]
      [] c.fn = "gtk_window_stick" -> [w EXCEPT !.hints = @ \cup {"sticky"}]
      [] c.fn = "gtk_window_set_keep_above" ->
            [w EXCEPT !.hints = @ \cup {"keep_above"}]
      [] c.fn = "gtk_window_set_type_hint" -> [w EXCEPT !.hints = @ \cup {"dock"}]
      [] c.fn = "gtk_widget_realize" -> [w EXCEPT !.realized = TRUE]
      [] c.fn = "gtk_window_move" -> [w EXCEPT !.position = c.args]
      [] c.fn = "fl_dart_project_set_dart_entrypoint_arguments" ->
            [w EXCEPT !.entrypointArgs = c.args]
      [] c.fn = "fl_view_set_background_color" -> [w EXCEPT !.background = c.args]
      [] c.fn = "gtk_widget_show" /\ c.on = "view" -> [w EXCEPT !.viewVisible = TRUE]
      [] c.fn = "gtk_widget_show" /\ c.on = "window" ->
            [w EXCEPT !.visible = TRUE, !.realized = TRUE]
      [] c.fn = "gtk_container_add" -> [w EXCEPT !.hasView = TRUE]
      [] c.fn = "g_signal_connect_swapped" -> [w EXCEPT !.handlers = @ + 1]
      [] c.fn = "fl_register_plugins" -> [w EXCEPT !.plugins = TRUE]
      [] c.fn = "gtk_widget_grab_focus" -> [w EXCEPT !.focus = "view"]
      [] c.fn = "XChangeProperty" /\ c.on = "_NET_WM_STATE" ->
            [w EXCEPT !.netWmState = ArrayPrefix(c.args.data, c.args.nelements)]
      [] c.fn = "XChangeProperty" /\ c.on = "_NET_WM_STRUT_PARTIAL" ->
            [w EXCEPT !.strutPartial = ArrayPrefix(c.args.data, c.args.nelements)]
      [] c.fn = "XChangeProperty" /\ c.on = "_NET_WM_STRUT" ->
            [w EXCEPT !.strut = ArrayPrefix(c.args.data, c.args.nelements)]
      [] OTHER -> w

ApplyCall(w, c) == [Effect(w, c) EXCEPT !.calls = Append(@, c)]

RECURSIVE ApplyCalls(_, _)
ApplyCalls(w, cs) ==
    IF cs = <<>> THEN w ELSE ApplyCalls(ApplyCall(w, Head(cs)), Tail(cs))

----------------------------------------------------------------------------
(* my_application_activate *)

\* if (visual != nullptr) gtk_widget_set_visual(window_widget, visual);
VisualCalls(p) ==
    IF p.rgba THEN << Call("gtk_widget_set_visual", "window", <<>>) >> ELSE <<>>

\* my_application_activate up to gtk_window_move: the window is created,
\* configured, realized and placed
WindowSetupCalls(p, m) ==
    LET g == GeometryFor(m) IN
       << Call("gtk_application_window_new", "window", <<>>),
          Call("gtk_widget_set_app_paintable", "window", <<>>) >>
    \o VisualCalls(p)
    \o << Call("gtk_window_set_default_size", "window", <<g.width, g.height>>),
          Call("gtk_widget_set_size_request", "window", <<g.width, g.height>>),
          Call("gtk_window_set_decorated", "window", <<>>),
          Call("gtk_window_stick", "window", <<>>),
          Call("gtk_window_set_keep_above", "window", <<>>),
          Call("gtk_window_set_type_hint", "window", <<>>),
          Call("gtk_widget_realize", "window", <<>>),
          Call("gtk_window_move", "window",
               MovePosition(m.geometry, g.height, g.margin)) >>

\* variant: activate also shows the top-level window
ViewSetupCallsShowingWindow(arguments) ==
    << Call("fl_dart_project_set_dart_entrypoint_arguments", "view", arguments),
       Call("fl_view_new", "view", <<>>),
       Call("fl_view_set_background_color", "view", <<0, 0, 0, 0>>),
       Call("gtk_widget_show", "view", <<>>),
       Call("gtk_container_add", "window", <<>>),
       Call("g_signal_connect_swapped", "view", <<>>),
       Call("fl_register_plugins", "view", <<>>),
       Call("gtk_widget_grab_focus", "view", <<>>),
       Call("gtk_widget_show", "window", <<>>) >>

\* the rest of my_application_activate: the view is created, shown, added to
\* the window and connected to first_frame_cb
ViewSetupCalls(arguments) ==
    << Call("fl_dart_project_set_dart_entrypoint_arguments", "view", arguments),
       Call("fl_view_new", "view", <<>>),
       Call("fl_view_set_background_color", "view", <<0, 0, 0, 0>>),
       Call("gtk_widget_show", "view", <<>>),
       Call("gtk_container_add", "window", <<>>),
       Call("g_signal_connect_swapped", "view", <<>>),
       Call("fl_register_plugins", "view", <<>>),
       Call("gtk_widget_grab_focus", "view", <<>>) >>

\* the toolkit calls of my_application_activate, in source order
ActivateCalls(p, m, arguments) == WindowSetupCalls(p, m) \o ViewSetupCalls(arguments)

\* the window my_application_activate leaves behind; monitor is what this run
\* read and geometry what it stored on the application object
ActivatedWindow(p, m, arguments, stored) ==
    [ApplyCalls(NewWindow, ActivateCalls(p, m, arguments))
        EXCEPT !.monitor = m, !.geometry = stored]

----------------------------------------------------------------------------
(* first_frame_cb *)

\* variant: the run-time test of the surface is left out
UsesX11WithoutSurfaceTest(p) == p.x11Build

\* #ifdef GDK_WINDOWING_X11 ... if (GDK_IS_X11_WINDOW(gdk_window))
UsesX11(p) == p.x11Build /\ p.backend = "x11"

\* the X11 part of first_frame_cb, for the values read from self
X11Calls(height, width, margin) ==
    << Call("XInternAtom", "_NET_WM_STATE", <<>>),
       Call("XInternAtom", "_NET_WM_STATE_STICKY", <<>>),
       Call("XInternAtom", "_NET_WM_STATE_ABOVE", <<>>),
       Call("XChangeProperty", "_NET_WM_STATE",
            [data |-> [i \in 0..1 |->
                         IF i = 0 THEN "_NET_WM_STATE_STICKY"
                                  ELSE "_NET_WM_STATE_ABOVE"],
             nelements |-> 2]),
       Call("XInternAtom", "_NET_WM_STRUT_PARTIAL", <<>>),
       Call("XInternAtom", "_NET_WM_STRUT", <<>>),
       Call("XChangeProperty", "_NET_WM_STRUT_PARTIAL",
            [data |-> Strut(height, width, margin), nelements |-> StrutLen]),
       Call("XChangeProperty", "_NET_WM_STRUT",
            [data |-> Strut(height, width, margin), nelements |-> LegacyStrutLen]),
       Call("XSetInputFocus", "None", <<>>),
       Call("XFlush", "display", <<>>) >>

\* the toolkit calls of first_frame_cb, in source order
FirstFrameCalls(p, height, width, margin) ==
    << Call("gtk_widget_show", "window", <<>>) >>
    \o (IF UsesX11(p) THEN X11Calls(height, width, margin) ELSE <<>>)

\* the fields of self that first_frame_cb reads, if it reads them
FieldReads(p, height, width, margin) ==
    IF UsesX11(p)
    THEN << [height |-> height, width |-> width, margin |-> margin] >>
    ELSE <<>>

\* one run of first_frame_cb(self, view) on the view's window w
first_frame_cb(p, height, width, margin, w) ==
    [ApplyCalls(w, FirstFrameCalls(p, height, width, margin))
        EXCEPT !.cbRuns = @ + 1,
               !.reads = @ \o FieldReads(p, height, width, margin)]

\* variant: the handler disconnects itself after its first run
HandlersAfterEmissionOneShot(handlers) == 0

\* g_signal_connect_swapped: the handler stays connected after it has run
HandlersAfterEmission(handlers) == handlers

\* an emission of "first-frame" on the view of w runs the connected handler
EmitFirstFrame(p, height, width, margin, w) ==
    LET ran == IF w.handlers > 0
               THEN first_frame_cb(p, height, width, margin, w)
               ELSE w
    IN  [ran EXCEPT !.emissions = @ + 1,
                    !.handlers = HandlersAfterEmission(@)]

\* XSetInputFocus(xdisplay, None, RevertToNone, CurrentTime)
XFocusAfter(focus, calls) ==
    IF \E i \in 1..Len(calls) : calls[i].fn = "XSetInputFocus" THEN "None" ELSE focus

----------------------------------------------------------------------------
(* my_application_local_command_line and my_application_dispose *)

\* a vector allocated by g_strdupv, and how often g_strfreev was called on it
Allocation(strings) == [strings |-> strings, frees |-> 0]

\* g_application_register: TRUE at once when already registered
RegisterSucceeds(isRegistered, registerOk) == isRegistered \/ registerOk

\* variant: the failure path reports success
ExitStatusAlwaysZero(ok) == 0

\* *exit_status = 1 on the failure path, *exit_status = 0 after activation
ExitStatus(ok) == IF ok THEN 0 ELSE 1

\* g_application_activate(application) is called on the success path only
Activates(ok) == ok

\* g_clear_pointer(&self->dart_entrypoint_arguments, g_strfreev)
ClearPointer(h, pointer) ==
    IF pointer = 0 THEN h ELSE [h EXCEPT ![pointer].frees = @ + 1]

----------------------------------------------------------------------------
(* The state machine of the runner *)

InitApp ==
    /\ platform \in Platforms
    /\ argv \in Argvs
    /\ dart_entrypoint_arguments = 0
    /\ window_height = 0
    /\ window_width = 0
    /\ bottom_margin = 0
    /\ heap = <<>>
    /\ registered = FALSE
    /\ hook = [runs |-> 0, stored |-> 0, registerOk |-> FALSE, activated |-> FALSE,
               windowsBefore |-> 0, exit_status |-> 0, handled |-> FALSE]
    /\ windows = <<>>
    /\ xInputFocus = "PointerRoot"
    /\ emitted = 0
    /\ disposed = 0

\* my_application_activate(application), reading the monitor as m
my_application_activate(m) ==
    LET g == GeometryFor(m)
        arguments == heap'[dart_entrypoint_arguments'].strings
    IN  /\ window_height' = g.height
        /\ window_width' = g.width
        /\ bottom_margin' = g.margin
        /\ windows' = Append(windows,
                ActivatedWindow(platform, m, arguments,
                                [height |-> window_height', width |-> window_width',
                                 margin |-> bottom_margin']))

\* my_application_local_command_line(application, &argv, &exit_status)
my_application_local_command_line(registerOk, m) ==
    LET ok == RegisterSucceeds(registered, registerOk) IN
    /\ disposed = 0
    /\ hook.runs < MaxHooks
    /\ heap' = Append(heap, Allocation(StrdupvAfterProgramName(argv)))
    /\ dart_entrypoint_arguments' = Len(heap')
    /\ registered' = ok
    /\ IF Activates(ok)
       THEN my_application_activate(m)
       ELSE UNCHANGED <<window_height, window_width, bottom_margin, windows>>
    /\ hook' = [runs |-> hook.runs + 1,
                stored |-> dart_entrypoint_arguments',
                registerOk |-> ok,
                activated |-> Len(windows') > Len(windows),
                windowsBefore |-> Len(windows),
                exit_status |-> ExitStatus(ok),
                handled |-> TRUE]
    /\ UNCHANGED <<platform, argv, xInputFocus, emitted, disposed, icon>>

\* the view of window i emits "first-frame"
FirstFrame(i) ==
    /\ disposed = 0
    /\ emitted < MaxEmit
    /\ i \in 1..Len(windows)
    /\ LET w == EmitFirstFrame(platform, window_height, window_width,
                               bottom_margin, windows[i])
       IN  /\ windows' = [windows EXCEPT ![i] = w]
           /\ xInputFocus' =
                XFocusAfter(xInputFocus,
                            SubSeq(w.calls, Len(windows[i].calls) + 1, Len(w.calls)))
    /\ emitted' = emitted + 1
    /\ UNCHANGED <<platform, argv, dart_entrypoint_arguments, window_height,
                   window_width, bottom_margin, heap, registered, hook, disposed,
                   icon>>

\* my_application_dispose(object)
my_application_dispose ==
    /\ disposed < MaxDispose
    /\ heap' = ClearPointer(heap, dart_entrypoint_arguments)
    /\ dart_entrypoint_arguments' = 0
    /\ disposed' = disposed + 1
    /\ UNCHANGED <<platform, argv, window_height, window_width, bottom_margin,
                   registered, hook, windows, xInputFocus, emitted, icon>>

----------------------------------------------------------------------------
(* Icon path resolver: get_icon_path and free_icon_path *)

Some(v) == [some |-> TRUE, val |-> v]
None == [some |-> FALSE, val |-> ""]

IconNames == {"firefox", "builtin-missing-image", "no-such-icon"}

IconSizes == {-1, 0, 48}

\* The default icon theme: for each icon it has, the file it is stored in, if
\* any (gtk_icon_info_get_filename gives NULL for an icon without a file).
Theme ==
    [icons |-> [n \in {"firefox", "builtin-missing-image"} |->
                  IF n = "firefox"
                  THEN Some("/usr/share/icons/hicolor/48x48/apps/firefox.png")
                  ELSE None]]

\* gtk_icon_theme_get_default(): the theme, or NULL
ThemeOptions == {Some(Theme), [some |-> FALSE, val |-> [icons |-> <<>>]]}

\* gtk_icon_theme_lookup_icon(theme, icon_name, size, GTK_ICON_LOOKUP_FORCE_SIZE):
\* the GtkIconInfo, or NULL.  An icon the theme has is found at every size of
\* at least 1; what the theme does with a smaller size is left open.
LookupOutcomes(theme, icon_name, size) ==
    IF icon_name \notin DOMAIN theme.icons THEN {None}
    ELSE IF size >= 1 THEN {Some(theme.icons[icon_name])}
    ELSE {None, Some(theme.icons[icon_name])}

\* char* result = path ? strdup(path) : NULL;
DuplicatePath(path, dupOk) == IF path.some /\ dupOk THEN Some(path.val) ELSE None

\* variant: the GtkIconInfo is never released
InfoUnrefsNever(info) == 0

\* g_object_unref(info) is reached once GtkIconInfo was obtained
InfoUnrefs(info) == IF info.some THEN 1 ELSE 0

\* get_icon_path(icon_name, size), given what the toolkit answers
get_icon_path(theme, info, dupOk) ==
    IF ~theme.some THEN [result |-> None, lookedUp |-> FALSE, unrefs |-> 0]
    ELSE IF ~info.some THEN [result |-> None, lookedUp |-> TRUE, unrefs |-> 0]
    ELSE [result |-> DuplicatePath(info.val, dupOk), lookedUp |-> TRUE,
          unrefs |-> InfoUnrefs(info)]

InitIcon ==
    icon = [calls |-> 0, strings |-> <<>>, result |-> 0,
            last |-> [icon_name |-> "", size |-> 0, theme |-> FALSE, info |-> None,
                      dupOk |-> FALSE, returned |-> None, unrefs |-> 0]]

\* a call get_icon_path(icon_name, size)
Resolve(icon_name, size, theme, dupOk) ==
    /\ icon.calls < MaxResolve
    /\ \E info \in (IF theme.some THEN LookupOutcomes(theme.val, icon_name, size)
                                  ELSE {None}) :
         LET r == get_icon_path(theme, info, dupOk)
             strings == IF r.result.some
                        THEN Append(icon.strings, [str |-> r.result.val, frees |-> 0])
                        ELSE icon.strings
         IN  icon' = [calls |-> icon.calls + 1,
                      strings |-> strings,
                      result |-> IF r.result.some THEN Len(strings) ELSE 0,
                      last |-> [icon_name |-> icon_name, size |-> size,
                                theme |-> theme.some, info |-> info, dupOk |-> dupOk,
                                returned |-> r.result, unrefs |-> r.unrefs]]
    /\ UNCHANGED appVars

\* free_icon_path(path) on a path get_icon_path returned and still owned
free_icon_path(path) ==
    /\ path \in 1..Len(icon.strings)
    /\ icon.strings[path].frees = 0
    /\ icon' = [icon EXCEPT !.strings[path].frees = @ + 1]
    /\ UNCHANGED appVars

----------------------------------------------------------------------------
(* Specifications *)

Init == InitApp /\ InitIcon

\* the command-line hook runs, with some outcome of registration and some monitor
CommandLine ==
    \E registerOk \in BOOLEAN, m \in MonitorReadings(platform) :
        my_application_local_command_line(registerOk, m)

\* some view emits first-frame
Emission == \E i \in 1..MaxHooks : FirstFrame(i)

Next ==
    \/ CommandLine
    \/ Emission
    \/ my_application_dispose

Spec == Init /\ [][Next]_vars

\* a caller resolves some icon
ResolveCall ==
    \E icon_name \in IconNames, size \in IconSizes, theme \in ThemeOptions,
       dupOk \in BOOLEAN : Resolve(icon_name, size, theme, dupOk)

\* a caller releases a path it owns
ReleaseCall == \E path \in 1..MaxResolve : free_icon_path(path)

NextIcon ==
    \/ ResolveCall
    \/ ReleaseCall

SpecIcon == Init /\ [][NextIcon]_vars

----------------------------------------------------------------------------
(* Helpers for stating the properties *)

Windows == { windows[i] : i \in 1..Len(windows) }

\* the positions in the call log of w of the calls of fn made on target
CallsOf(w, fn, target) ==
    { k \in 1..Len(w.calls) : w.calls[k].fn = fn /\ w.calls[k].on = target }

\* the calls w's log holds after the last call of my_application_activate
CallbackCalls(w) ==
    LET last == CHOOSE k \in CallsOf(w, "gtk_widget_grab_focus", "view") : TRUE
    IN  SubSeq(w.calls, last + 1, Len(w.calls))

\* a call's name and target
Label(c) == <<c.fn, c.on>>

IsXInternAtom(c) == c.fn = "XInternAtom"
IsNotXInternAtom(c) == ~IsXInternAtom(c)

\* the calls of a log that act on the window or the display, labelled
Acts(calls) ==
    LET kept == SelectSeq(calls, IsNotXInternAtom)
    IN  [k \in 1..Len(kept) |-> Label(kept[k])]

----------------------------------------------------------------------------
(* Properties *)

\* C1: my_application_activate never shows the top-level window (it shows the
\* view only); every gtk_widget_show of the window is made by first_frame_cb,
\* whose first call it is.  So a window is visible only after a first-frame
\* emission on its view, and stays hidden as long as there is none.
C1_DeferredReveal ==
    \A w \in Windows :
        LET shows == CallsOf(w, "gtk_widget_show", "window")
            focus == CallsOf(w, "gtk_widget_grab_focus", "view")
        IN  /\ Cardinality(focus) = 1
            /\ w.viewVisible
            /\ \A k \in shows : \A f \in focus : k > f
            /\ w.visible <=> shows # {}
            /\ w.visible => w.emissions >= 1
            /\ w.emissions = 0 => ~w.visible
            /\ w.cbRuns >= 1 =>
                  /\ w.visible
                  /\ Label(CallbackCalls(w)[1]) = <<"gtk_widget_show", "window">>

\* C1 witness: one window revealed by its callback, another still hidden
C1_Witness ==
    \E w1, w2 \in Windows :
        /\ w1.visible /\ w1.cbRuns = 1
        /\ ~w2.visible /\ w2.emissions = 0 /\ w2.viewVisible

C3_Original ==
    \A w \in Windows :
        w.reads # <<>> =>
            LET r == w.reads[Len(w.reads)] IN
            /\ { i \in DOMAIN w.strutPartial : w.strutPartial[i] # 0 } = {3, 10, 11}
            /\ w.strutPartial[3] = r.height + r.margin
            /\ w.strutPartial[11] = r.width
            /\ w.strut = [i \in 0..3 |-> w.strutPartial[i]]

\* C3 amended: the partial strut has 12 entries, all zero except possibly
\* index 3 = height + margin and index 11 = width (index 10 is written as 0),
\* for the height, width and margin read from the application object, which
\* some activate stored; the legacy strut, written by the next
\* XChangeProperty, is its first 4 elements.  Without a run of the X11 part
\* neither property is set.
C3_StrutLayout ==
    \A w \in Windows :
        /\ w.reads = <<>> => w.strutPartial = <<>> /\ w.strut = <<>>
        /\ w.reads # <<>> =>
            LET r == w.reads[Len(w.reads)] IN
            /\ \E v \in Windows : v.geometry = r
            /\ DOMAIN w.strutPartial = 0..11
            /\ w.strutPartial[3] = r.height + r.margin
            /\ w.strutPartial[10] = 0
            /\ w.strutPartial[11] = r.width
            /\ \A i \in 0..11 : i \notin {3, 11} => w.strutPartial[i] = 0
            /\ DOMAIN w.strut = 0..3
            /\ \A i \in 0..3 : w.strut[i] = w.strutPartial[i]
            /\ \A k \in CallsOf(w, "XChangeProperty", "_NET_WM_STRUT_PARTIAL") :
                  k + 1 \in CallsOf(w, "XChangeProperty", "_NET_WM_STRUT")

\* C3 witness: a strut written for an 800 pixel wide monitor at scale 2
C3_Witness ==
    \E w \in Windows :
        /\ w.reads # <<>>
        /\ w.strutPartial[3] = 128
        /\ w.strutPartial[11] = 800
        /\ w.strut[3] = 128

\* C4: activate moves the window to x = 0, y = monitor height - window height
\* - bottom margin, for the height and margin it stored on the application
\* object, whatever the monitor's origin and scale; the move is made once,
\* after the window was realized.
C4_Placement ==
    \A w \in Windows :
        LET moves == CallsOf(w, "gtk_window_move", "window")
            realizes == CallsOf(w, "gtk_widget_realize", "window")
        IN  /\ w.position =
                 <<0, w.monitor.geometry.height - w.geometry.height - w.geometry.margin>>
            /\ Cardinality(moves) = 1
            /\ Cardinality(realizes) = 1
            /\ \A k \in moves : \A r \in realizes : r < k

\* C4 witness: a monitor at x = 800, 768 high, scale 1: the window is at (0, 704)
C4_Witness ==
    \E w \in Windows :
        /\ w.monitor.present
        /\ w.monitor.geometry.x = 800
        /\ w.monitor.scale = 1
        /\ w.position = <<0, 704>>
        /\ w.realized

\* C5: for a monitor with scale factor s >= 1 and width wd >= 0, activate
\* stores window_height = 60 * s, bottom_margin = 4 * s and window_width = wd,
\* all non-negative; after activate the fields of the application object are
\* the values the latest activate stored.
C5_Geometry ==
    /\ \A w \in Windows :
          (w.monitor.present /\ w.monitor.scale >= 1 /\ w.monitor.geometry.width >= 0) =>
              /\ w.geometry.height = 60 * w.monitor.scale
              /\ w.geometry.margin = 4 * w.monitor.scale
              /\ w.geometry.width = w.monitor.geometry.width
              /\ w.geometry.height >= 0
              /\ w.geometry.margin >= 0
              /\ w.geometry.width >= 0
    /\ windows # <<>> =>
          LET w == windows[Len(windows)] IN
          /\ window_height = w.geometry.height
          /\ window_width = w.geometry.width
          /\ bottom_margin = w.geometry.margin

\* C5 witness: scale 2 on the 800 pixel wide monitor gives 120, 800 and 8
C5_Witness ==
    /\ windows # <<>>
    /\ windows[Len(windows)].monitor.scale = 2
    /\ window_height = 120
    /\ window_width = 800
    /\ bottom_margin = 8

\* C6: the command-line hook stores the arguments after the program name and
\* registers; when registration fails it sets exit status 1 and activate does
\* not run, when it succeeds activate runs within the hook and the exit
\* status is 0; the hook always reports the command line handled, and the
\* exit status is 0 exactly when activate ran.
C6_CommandLine ==
    hook.runs > 0 =>
        /\ hook.handled
        /\ hook.stored \in 1..Len(heap)
        /\ heap[hook.stored].strings = SubSeq(argv, 2, Len(argv))
        /\ hook.exit_status \in {0, 1}
        /\ hook.exit_status = 0 <=> hook.activated
        /\ hook.registerOk => hook.activated /\ hook.exit_status = 0
        /\ ~hook.registerOk => ~hook.activated /\ hook.exit_status = 1
        /\ Len(windows) = hook.windowsBefore + (IF hook.exit_status = 0 THEN 1 ELSE 0)
        /\ hook.activated => windows[Len(windows)].entrypointArgs = SubSeq(argv, 2, Len(argv))

\* C6 witness: a hook whose registration failed, then one that succeeded
C6_Witness ==
    /\ hook.runs = 2
    /\ hook.exit_status = 0
    /\ hook.windowsBefore = 0
    /\ Len(windows) = 1
    /\ Len(heap) = 2

\* C6 witness of the failure path: exit status 1 and no window
C6_FailureReached ==
    hook.runs = 1 /\ hook.exit_status = 1 /\ windows = <<>> /\ ~registered

\* C7: on a backend other than X11 every run of first_frame_cb only shows the
\* window: no property is written, the input focus is not cleared, nothing is
\* flushed.  On X11 every run shows the window and then writes _NET_WM_STATE,
\* _NET_WM_STRUT_PARTIAL and _NET_WM_STRUT, clears the input focus and
\* flushes, in this order.
C7_X11Only ==
    LET x11Acts == << <<"gtk_widget_show", "window">>,
                      <<"XChangeProperty", "_NET_WM_STATE">>,
                      <<"XChangeProperty", "_NET_WM_STRUT_PARTIAL">>,
                      <<"XChangeProperty", "_NET_WM_STRUT">>,
                      <<"XSetInputFocus", "None">>,
                      <<"XFlush", "display">> >>
    IN  \A w \in Windows :
            LET acts == Acts(CallbackCalls(w)) IN
            /\ w.visible <=> w.cbRuns >= 1
            /\ platform.backend # "x11" =>
                  /\ Len(acts) = w.cbRuns
                  /\ \A k \in 1..Len(acts) : acts[k] = <<"gtk_widget_show", "window">>
                  /\ SelectSeq(CallbackCalls(w), IsXInternAtom) = <<>>
                  /\ w.netWmState = <<>> /\ w.strutPartial = <<>> /\ w.strut = <<>>
                  /\ xInputFocus = "PointerRoot"
            /\ platform.backend = "x11" =>
                  /\ Len(acts) = 6 * w.cbRuns
                  /\ \A k \in 1..Len(acts) : acts[k] = x11Acts[((k - 1) % 6) + 1]
                  /\ w.cbRuns >= 1 =>
                        /\ DOMAIN w.netWmState = 0..1
                        /\ w.netWmState[0] = "_NET_WM_STATE_STICKY"
                        /\ w.netWmState[1] = "_NET_WM_STATE_ABOVE"
                        /\ DOMAIN w.strutPartial = 0..11
                        /\ DOMAIN w.strut = 0..3
                        /\ xInputFocus = "None"

\* C7 witness: a build with X11 support running on another backend, its
\* window revealed by the callback
C7_Witness ==
    /\ platform.x11Build
    /\ platform.backend = "wayland"
    /\ \E w \in Windows : w.visible /\ w.cbRuns >= 1 /\ w.strutPartial = <<>>

\* C7 witness on X11: the callback has run and the properties are written
C7_X11Reached ==
    /\ platform.backend = "x11"
    /\ \E w \in Windows : w.visible /\ w.cbRuns >= 1 /\ w.strutPartial # <<>>

\* C8 as stated (the part about a match): whenever the theme lookup, at a
\* size of at least 1, gave a GtkIconInfo and the copy could be allocated,
\* get_icon_path returns a copy of the icon file's path.
C8_Original ==
    (icon.calls > 0 /\ icon.last.size >= 1 /\ icon.last.info.some /\ icon.last.dupOk) =>
        icon.last.returned.some

\* C8 amended: get_icon_path fails only by returning NULL.  It returns NULL
\* when there is no theme, when the lookup gives no GtkIconInfo (as for a
\* name the theme does not have), when the GtkIconInfo has no file name, and
\* when strdup fails; otherwise it returns a newly allocated copy of the file
\* name.  The size is passed to the lookup unexamined.  The GtkIconInfo is
\* released exactly once when one was obtained, and nothing is released
\* otherwise.
C8_Resolve ==
    icon.calls > 0 =>
        LET l == icon.last IN
        /\ l.returned.some <=>
              (l.theme /\ l.info.some /\ l.info.val.some /\ l.dupOk)
        /\ l.returned.some =>
              /\ l.returned.val = l.info.val.val
              /\ icon.result = Len(icon.strings)
              /\ icon.strings[icon.result].str = l.info.val.val
        /\ ~l.returned.some => icon.result = 0
        /\ ~l.theme => ~l.info.some
        /\ l.icon_name = "no-such-icon" => ~l.returned.some
        /\ l.info.some => l.unrefs = 1
        /\ ~l.info.some => l.unrefs = 0

\* C8 witness: the lookup matched an icon that has no file: NULL is returned
\* and the GtkIconInfo was released once
C8_Witness ==
    /\ icon.calls > 0
    /\ icon.last.info.some
    /\ ~icon.last.info.val.some
    /\ ~icon.last.returned.some
    /\ icon.last.unrefs = 1

\* C8 witness of the success path: a copy returned, the GtkIconInfo released
C8_CopyReached ==
    /\ icon.calls = 2
    /\ icon.last.returned.some
    /\ icon.last.unrefs = 1
    /\ Len(icon.strings) = 2
    /\ icon.strings[1].frees = 1
    /\ icon.strings[2].frees = 0

\* C9: once dispose has run, every argument vector the command-line hook
\* stored has been freed exactly once and the stored pointer is empty; no
\* vector is ever freed twice.
C9_ReleasedExactlyOnce ==
    /\ \A k \in 1..Len(heap) : heap[k].frees <= 1
    /\ disposed >= 1 =>
          /\ dart_entrypoint_arguments = 0
          /\ \A k \in 1..Len(heap) : heap[k].frees = 1

\* C10: every run of first_frame_cb reads the height, width and margin that
\* the activate which created the callback's window stored.
C10_ReadsOwnGeometry ==
    \A w \in Windows : \A k \in 1..Len(w.reads) : w.reads[k] = w.geometry

====
